---- MODULE Spec2Model ----
(***************************************************************************)
(* Model of seller.py: the synchronisation of a supplier stock export with *)
(* a marketplace seller catalog.                                           *)
(*                                                                         *)
(* Strings that the program takes apart (quantities, prices) are modelled  *)
(* as sequences of one-character strings, so that int() and                *)
(* price_conversion() are computed character by character.  Offer IDs and  *)
(* record codes are atomic strings: str() of a string is that string.      *)
(* The record fields "Код", "Количество", "Цена" are named code, quantity, *)
(* price.                                                                  *)
(***************************************************************************)
EXTENDS Integers, Sequences, FiniteSets, TLC

VARIABLES
    flow,            \* entry point running: main, upload_stocks, upload_prices
    pc,              \* position of the run
    catalog,         \* the marketplace catalog behind the listing endpoint
    last_id,         \* get_offer_ids: cursor of the last page (number of items served)
    product_list,    \* get_offer_ids: items accumulated so far
    total,           \* get_offer_ids: total reported by the latest page
    offer_ids,       \* the offer-ID list of the run (create_stocks drains it)
    watch_remnants,  \* the supplier records
    stocks,          \* result of create_stocks
    prices,          \* result of create_prices
    made,            \* which of "stocks", "prices" have been computed
    chunks,          \* list(divide(...)) of the stream being dispatched
    stock_calls,     \* payloads update_stocks was called with, in order
    price_calls,     \* payloads update_price was called with, in order
    error,           \* the exception that ended the run ("none" if none)
    printed,         \* what main's handler printed ("none" if nothing)
    d_lst, d_n,      \* divide called on its own: the arguments
    d_pc, d_out      \* divide called on its own: position and result

runVars == <<flow, pc, catalog, last_id, product_list, total, offer_ids,
             watch_remnants, stocks, prices, made, chunks, stock_calls,
             price_calls, error, printed>>
divVars == <<d_lst, d_n, d_pc, d_out>>
vars == <<flow, pc, catalog, last_id, product_list, total, offer_ids,
          watch_remnants, stocks, prices, made, chunks, stock_calls,
          price_calls, error, printed, d_lst, d_n, d_pc, d_out>>

(***************************************************************************)
(* Bounds of the model.  The chunk sizes and the page limit are 100, 900,  *)
(* 1000 and 1000 in the source (lines 426, 430, 393, 60); they are scaled  *)
(* down so that a run within the bounds spans several chunks and pages.    *)
(***************************************************************************)
MaxRecords == 2
MaxLen == 3
MaxStep == 2
StockChunk == 2
PriceChunk == 1
UploadPriceChunk == 1
PageLimit == 2

OfferIds == {"A", "B", "C"}
Codes == {"A", "B"}
Items == {"a", "b"}

Range(s) == {s[i] : i \in DOMAIN s}
Min(a, b) == IF a < b THEN a ELSE b
Count(s, x) == Cardinality({i \in DOMAIN s : s[i] = x})
NoDup(s) == \A i, j \in DOMAIN s : i # j => s[i] # s[j]
SeqsUpTo(S, n) == UNION {[1..k -> S] : k \in 0..n}
RECURSIVE Flatten(_)
Flatten(ss) == IF ss = <<>> THEN <<>> ELSE Head(ss) \o Flatten(Tail(ss))

\* ------------------------------------------------------------ the inputs
Q_gt10 == <<">", "1", "0">>
Q_1 == <<"1">>
Q_7 == <<"7">>
Q_12 == <<"1", "2">>
Q_x == <<"x">>
Quantities == {Q_gt10, Q_1, Q_7, Q_12, Q_x}

\* "1'000.00 руб." and "2'000.00 руб." (the currency label transliterated)
P_1000 == <<"1", "'", "0", "0", "0", ".", "0", "0", " ", "r", "u", "b", ".">>
P_2000 == <<"2", "'", "0", "0", "0", ".", "0", "0", " ", "r", "u", "b", ".">>
PriceOf(code) == IF code = "A" THEN P_1000 ELSE P_2000

\* The supplier's rows: every code with every quantity, priced per code.
SupplierRecords ==
    {[code |-> c, quantity |-> q, price |-> PriceOf(c)] : c \in Codes, q \in Quantities}
Feeds == SeqsUpTo(SupplierRecords, MaxRecords)
\* The catalogs: every duplicate-free list of offer IDs.
Catalogs == {s \in SeqsUpTo(OfferIds, Cardinality(OfferIds)) : NoDup(s)}

\* ------------------------------------------------------------ int()
Digit == [c \in {"0", "1", "2", "3", "4", "5", "6", "7", "8", "9"} |->
            CASE c = "0" -> 0 [] c = "1" -> 1 [] c = "2" -> 2 [] c = "3" -> 3
              [] c = "4" -> 4 [] c = "5" -> 5 [] c = "6" -> 6 [] c = "7" -> 7
              [] c = "8" -> 8 [] c = "9" -> 9]
IsDigit(c) == c \in DOMAIN Digit
\* int(s) accepts s (the inputs carry no sign, blank or underscore)
IsInt(s) == Len(s) > 0 /\ \A i \in DOMAIN s : IsDigit(s[i])
RECURSIVE IntOf(_)
IntOf(s) == IF s = <<>> THEN 0
            ELSE 10 * IntOf(SubSeq(s, 1, Len(s) - 1)) + Digit[s[Len(s)]]

\* ------------------------------------------------------------ create_stocks
InList(x, lst) == \E i \in DOMAIN lst : lst[i] = x
\* list.remove left out: the list is never drained
ListRemoveNothing(lst, x) == lst
\* list.remove(x): the first occurrence goes, the rest keeps its order
ListRemove(lst, x) ==
    LET k == CHOOSE i \in DOMAIN lst : lst[i] = x /\ \A j \in 1..(i - 1) : lst[j] # x
    IN  SubSeq(lst, 1, k - 1) \o SubSeq(lst, k + 1, Len(lst))

\* the "1" bucket left out: "1" is parsed like any other number
stock_count_no_bucket(quantity) ==
    IF quantity = Q_gt10 THEN [ok |-> TRUE, stock |-> 100]
    ELSE IF IsInt(quantity) THEN [ok |-> TRUE, stock |-> IntOf(quantity)]
    ELSE [ok |-> FALSE, stock |-> 0]
\* a quantity that does not parse counted as no stock instead of raising
stock_count_lenient(quantity) ==
    IF quantity = Q_gt10 THEN [ok |-> TRUE, stock |-> 100]
    ELSE IF quantity = Q_1 THEN [ok |-> TRUE, stock |-> 0]
    ELSE IF IsInt(quantity) THEN [ok |-> TRUE, stock |-> IntOf(quantity)]
    ELSE [ok |-> TRUE, stock |-> 0]
\* lines 269-275: the stock of a matched record, or the failure of int()
stock_count(quantity) ==
    IF quantity = Q_gt10 THEN [ok |-> TRUE, stock |-> 100]
    ELSE IF quantity = Q_1 THEN [ok |-> TRUE, stock |-> 0]
    ELSE IF IsInt(quantity) THEN [ok |-> TRUE, stock |-> IntOf(quantity)]
    ELSE [ok |-> FALSE, stock |-> 0]

\* lines 267-277: the loop over the records, from record i on
RECURSIVE create_stocks_loop(_, _, _, _)
create_stocks_loop(remnants, i, ids, acc) ==
    IF i > Len(remnants) THEN [error |-> "none", stocks |-> acc, offer_ids |-> ids]
    ELSE LET watch == remnants[i]
             c == stock_count(watch.quantity)
         IN  IF InList(watch.code, ids)
             THEN IF c.ok
                  THEN create_stocks_loop(remnants, i + 1, ListRemove(ids, watch.code),
                           Append(acc, [offer_id |-> watch.code, stock |-> c.stock]))
                  ELSE [error |-> "ValueError", stocks |-> acc, offer_ids |-> ids]
             ELSE create_stocks_loop(remnants, i + 1, ids, acc)

\* The result, the list offer_ids as the call leaves it, and the exception if any.
create_stocks(remnants, ids) ==
    LET r == create_stocks_loop(remnants, 1, ids, <<>>)
    IN  IF r.error # "none" THEN r
        ELSE [r EXCEPT !.stocks =
                 r.stocks \o [k \in 1..Len(r.offer_ids) |->
                                 [offer_id |-> r.offer_ids[k], stock |-> 0]]]

\* ------------------------------------------------------------ create_prices
\* price.split(".")[0]
RECURSIVE BeforeDot(_)
BeforeDot(s) == IF s = <<>> \/ Head(s) = "." THEN <<>>
                ELSE <<Head(s)>> \o BeforeDot(Tail(s))
\* re.sub("[^0-9]", "", ...)
price_conversion(price) == SelectSeq(BeforeDot(price), IsDigit)

\* the membership test left out: a price for every record
create_prices_all(remnants, ids) ==
    [k \in 1..Len(remnants) |->
        [auto_action_enabled |-> "UNKNOWN",
         currency_code |-> "RUB",
         offer_id |-> remnants[k].code,
         old_price |-> "0",
         price |-> price_conversion(remnants[k].price)]]
RECURSIVE create_prices(_, _)
create_prices(remnants, ids) ==
    IF remnants = <<>> THEN <<>>
    ELSE LET watch == Head(remnants)
         IN  (IF InList(watch.code, ids)
              THEN <<[auto_action_enabled |-> "UNKNOWN",
                      currency_code |-> "RUB",
                      offer_id |-> watch.code,
                      old_price |-> "0",
                      price |-> price_conversion(watch.price)]>>
              ELSE <<>>) \o create_prices(Tail(remnants), ids)

\* ------------------------------------------------------------ divide
\* range(0, stop, step) for step # 0, from i on
RECURSIVE PyRange(_, _, _)
PyRange(i, stop, step) ==
    IF (step > 0 /\ i < stop) \/ (step < 0 /\ i > stop)
    THEN <<i>> \o PyRange(i + step, stop, step)
    ELSE <<>>
\* slices off by one: lst[i:j-1] and lst[i:j+1]
SliceShort(lst, i, j) == SubSeq(lst, i + 1, IF j - 1 < Len(lst) THEN j - 1 ELSE Len(lst))
SliceLong(lst, i, j) == SubSeq(lst, i + 1, IF j + 1 < Len(lst) THEN j + 1 ELSE Len(lst))
\* lst[i:j] for 0 <= i <= j
Slice(lst, i, j) == SubSeq(lst, i + 1, Min(j, Len(lst)))
\* a size of zero giving no chunks instead of the ValueError
divide_silent_zero(lst, n) ==
    LET r == IF n = 0 THEN <<>> ELSE PyRange(0, Len(lst), n)
    IN  [error |-> "none",
         chunks |-> [k \in 1..Len(r) |-> SubSeq(lst, r[k] + 1, Min(r[k] + n, Len(lst)))]]
\* list(divide(lst, n)): the chunks, or the ValueError of range()
divide(lst, n) ==
    IF n = 0 THEN [error |-> "ValueError", chunks |-> <<>>]
    ELSE LET r == PyRange(0, Len(lst), n)
         IN  [error |-> "none",
              chunks |-> [k \in 1..Len(r) |-> Slice(lst, r[k], r[k] + n)]]

\* ------------------------------------------------------------ the run
Flows == {"main", "upload_stocks", "upload_prices"}
Outcomes == {"ok", "ReadTimeout", "ConnectionError", "HTTPError"}

\* lines 432-437: what main's handlers print
Message(kind) ==
    CASE kind = "ReadTimeout" -> "timeout"
      [] kind = "ConnectionError" -> "connection"
      [] OTHER -> "ERROR_2"

\* An exception leaves the run: main catches and prints it, the upload
\* functions let it propagate.
Raise(kind) ==
    /\ error' = kind
    /\ pc' = IF flow = "main" THEN "done" ELSE "raised"
    /\ printed' = IF flow = "main" THEN Message(kind) ELSE "none"

\* the exception of a failed request swallowed
RaisesNever(outcome) == FALSE
\* update_stocks / update_price raise for an outcome that is not a good response
Raises(outcome) == outcome # "ok"

\* the loop left after the first page
LoopExitAtOnce(tot, n) == TRUE
\* line 100: the test that leaves the pagination loop
LoopExit(tot, n) == tot = n

AfterOfferIds == CASE flow = "main" -> "download_stock"
                   [] flow = "upload_stocks" -> "create_stocks"
                   [] flow = "upload_prices" -> "create_prices"
AfterStocks == IF flow = "main" THEN "create_prices" ELSE "done"

\* The listing endpoint: the items after the cursor, at most PageLimit of
\* them and at least one while any is left, with the constant total.
PageSizes(cursor) ==
    IF cursor >= Len(catalog) THEN {0}
    ELSE 1..Min(PageLimit, Len(catalog) - cursor)
get_product_list(cursor, k) ==
    [items |-> [j \in 1..k |-> [product_id |-> cursor + j,
                                offer_id |-> catalog[cursor + j]]],
     total |-> Len(catalog),
     last_id |-> cursor + k]

InitRun ==
    /\ flow \in Flows
    /\ pc = "get_offer_ids"
    /\ catalog \in Catalogs
    /\ last_id = 0
    /\ product_list = <<>>
    /\ total = 0
    /\ offer_ids = <<>>
    /\ watch_remnants \in (IF flow = "main" THEN {<<>>} ELSE Feeds)
    /\ stocks = <<>>
    /\ prices = <<>>
    /\ made = {}
    /\ chunks = <<>>
    /\ stock_calls = <<>>
    /\ price_calls = <<>>
    /\ error = "none"
    /\ printed = "none"

Init ==
    /\ InitRun
    /\ d_lst = <<>> /\ d_n = 1 /\ d_pc = "idle" /\ d_out = <<>>

\* lines 95-105: one iteration of the loop of get_offer_ids, and its return
GetProductListPage ==
    /\ pc = "get_offer_ids"
    /\ \E k \in PageSizes(last_id) :
         LET some_prod == get_product_list(last_id, k)
             pl == product_list \o some_prod.items
         IN  /\ product_list' = pl
             /\ total' = some_prod.total
             /\ last_id' = some_prod.last_id
             /\ IF LoopExit(some_prod.total, Len(pl))
                THEN /\ offer_ids' = [i \in 1..Len(pl) |-> pl[i].offer_id]
                     /\ pc' = AfterOfferIds
                ELSE UNCHANGED <<offer_ids, pc>>
    /\ UNCHANGED <<flow, catalog, watch_remnants, stocks, prices, made, chunks,
                   stock_calls, price_calls, error, printed>>
    /\ UNCHANGED divVars

\* line 423
DownloadStock ==
    /\ pc = "download_stock"
    /\ watch_remnants' \in Feeds
    /\ pc' = "create_stocks"
    /\ UNCHANGED <<flow, catalog, last_id, product_list, total, offer_ids, stocks,
                   prices, made, chunks, stock_calls, price_calls, error, printed>>
    /\ UNCHANGED divVars

\* lines 425-426 (410-411): create_stocks and list(divide(stocks, 100))
CreateStocks ==
    /\ pc = "create_stocks"
    /\ LET r == create_stocks(watch_remnants, offer_ids)
           ch == divide(r.stocks, StockChunk).chunks
       IN  /\ offer_ids' = r.offer_ids
           /\ IF r.error # "none"
              THEN /\ Raise(r.error)
                   /\ UNCHANGED <<stocks, made, chunks>>
              ELSE /\ stocks' = r.stocks
                   /\ made' = made \cup {"stocks"}
                   /\ chunks' = ch
                   /\ pc' = IF ch = <<>> THEN AfterStocks ELSE "update_stocks"
                   /\ UNCHANGED <<error, printed>>
    /\ UNCHANGED <<flow, catalog, last_id, product_list, total, watch_remnants,
                   prices, stock_calls, price_calls>>
    /\ UNCHANGED divVars

\* line 427 (412): update_stocks on the next chunk
UpdateStocks ==
    /\ pc = "update_stocks"
    /\ \E outcome \in Outcomes :
         LET i == Len(stock_calls) + 1
         IN  /\ stock_calls' = Append(stock_calls, [payload |-> chunks[i], outcome |-> outcome])
             /\ IF Raises(outcome)
                THEN Raise(outcome)
                ELSE /\ pc' = IF i = Len(chunks) THEN AfterStocks ELSE "update_stocks"
                     /\ UNCHANGED <<error, printed>>
    /\ UNCHANGED <<flow, catalog, last_id, product_list, total, offer_ids,
                   watch_remnants, stocks, prices, made, chunks, price_calls>>
    /\ UNCHANGED divVars

\* lines 429-430 (392-393): create_prices and list(divide(prices, 900 or 1000))
CreatePrices ==
    /\ pc = "create_prices"
    /\ LET p == create_prices(watch_remnants, offer_ids)
           ch == divide(p, IF flow = "main" THEN PriceChunk ELSE UploadPriceChunk).chunks
       IN  /\ prices' = p
           /\ made' = made \cup {"prices"}
           /\ chunks' = ch
           /\ pc' = IF ch = <<>> THEN "done" ELSE "update_price"
    /\ UNCHANGED <<flow, catalog, last_id, product_list, total, offer_ids,
                   watch_remnants, stocks, stock_calls, price_calls, error, printed>>
    /\ UNCHANGED divVars

\* line 431 (394): update_price on the next chunk
UpdatePrice ==
    /\ pc = "update_price"
    /\ \E outcome \in Outcomes :
         LET i == Len(price_calls) + 1
         IN  /\ price_calls' = Append(price_calls, [payload |-> chunks[i], outcome |-> outcome])
             /\ IF Raises(outcome)
                THEN Raise(outcome)
                ELSE /\ pc' = IF i = Len(chunks) THEN "done" ELSE "update_price"
                     /\ UNCHANGED <<error, printed>>
    /\ UNCHANGED <<flow, catalog, last_id, product_list, total, offer_ids,
                   watch_remnants, stocks, prices, made, chunks, stock_calls>>
    /\ UNCHANGED divVars

Next ==
    \/ GetProductListPage
    \/ DownloadStock
    \/ CreateStocks
    \/ UpdateStocks
    \/ CreatePrices
    \/ UpdatePrice

Spec == Init /\ [][Next]_vars

\* The program is sequential and runs on: while the loop of get_offer_ids can
\* take another iteration, it does.
FairSpec == Init /\ [][Next]_vars /\ WF_vars(GetProductListPage)

\* ------------------------------------------------------------ divide on its own
DivideInit ==
    /\ flow = "none" /\ pc = "idle" /\ catalog = <<>> /\ last_id = 0
    /\ product_list = <<>> /\ total = 0 /\ offer_ids = <<>>
    /\ watch_remnants = <<>> /\ stocks = <<>> /\ prices = <<>> /\ made = {}
    /\ chunks = <<>> /\ stock_calls = <<>> /\ price_calls = <<>>
    /\ error = "none" /\ printed = "none"
    /\ d_lst \in SeqsUpTo(Items, MaxLen)
    /\ d_n \in (-MaxStep)..MaxStep
    /\ d_pc = "call"
    /\ d_out = <<>>

\* list(divide(d_lst, d_n))
DivideCall ==
    /\ d_pc = "call"
    /\ LET r == divide(d_lst, d_n)
       IN  /\ d_pc' = IF r.error = "none" THEN "returned" ELSE "raised"
           /\ d_out' = r.chunks
    /\ UNCHANGED <<d_lst, d_n>>
    /\ UNCHANGED runVars

DivideSpec == DivideInit /\ [][DivideCall]_vars

\* ------------------------------------------------------------ properties
StockIds == [i \in DOMAIN stocks |-> stocks[i].offer_id]
PriceIds == [i \in DOMAIN prices |-> prices[i].offer_id]
FeedCodes == [i \in DOMAIN watch_remnants |-> watch_remnants[i].code]
Payloads(calls) == Flatten([i \in DOMAIN calls |-> calls[i].payload])
SentStocks == Payloads(stock_calls)
SentPrices == Payloads(price_calls)
SentStockIds == [i \in DOMAIN SentStocks |-> SentStocks[i].offer_id]
SentPriceIds == [i \in DOMAIN SentPrices |-> SentPrices[i].offer_id]
Ended == pc \in {"done", "raised"}
InCatalog(c) == c \in Range(catalog)
\* record i is the first of the feed with its code
FirstWithCode(i) == \A j \in 1..(i - 1) : watch_remnants[j].code # watch_remnants[i].code
\* a quantity outside the two buckets that is no number
NotANumber(q) ==
    /\ q # Q_gt10
    /\ q # Q_1
    /\ \/ q = <<>>
       \/ \E i \in DOMAIN q : q[i] \notin {"0", "1", "2", "3", "4", "5", "6", "7", "8", "9"}
\* create_stocks has been called in this run
CreateStocksRan ==
    /\ flow \in {"main", "upload_stocks"}
    /\ pc \notin {"get_offer_ids", "download_stock", "create_stocks"}
\* the run ended in create_stocks with nothing computed and nothing dispatched
AbortedInCreateStocks ==
    /\ Ended
    /\ error = "ValueError"
    /\ made = {}
    /\ stocks = <<>>
    /\ stock_calls = <<>>
    /\ price_calls = <<>>
    /\ flow = "main" => printed = "ERROR_2"

\* C1: once create_stocks has returned, its result holds exactly one stock
\* update per offer ID of the list it was given (the fetched catalog): none
\* is missing, none is there twice, and no other offer ID appears.
C1_ExactlyOneStockPerOfferId ==
    "stocks" \in made =>
        /\ \A id \in Range(catalog) : Count(StockIds, id) = 1
        /\ \A id \in Range(StockIds) : InCatalog(id)
C1_Witness ==
    /\ "stocks" \in made
    /\ Len(watch_remnants) = 2
    /\ watch_remnants[1].code = watch_remnants[2].code
    /\ InCatalog(watch_remnants[1].code)
    /\ Len(catalog) >= 2

\* C2: a run of main that ends without an error has dispatched one price
\* update for every record whose code is in the fetched offer IDs; for offer
\* IDs A, B, C and the records A (">10", 1'000.00) and B ("1", 2'000.00) the
\* stocks dispatched are A:100, B:0, C:0 and the prices A:"1000", B:"2000".
C2_MainDispatchesPriceOfEveryListedRecord ==
    (flow = "main" /\ pc = "done" /\ error = "none") =>
        /\ SentPriceIds = SelectSeq(FeedCodes, InCatalog)
        /\ (/\ catalog = <<"A", "B", "C">>
            /\ watch_remnants = <<[code |-> "A", quantity |-> Q_gt10, price |-> P_1000],
                                  [code |-> "B", quantity |-> Q_1, price |-> P_2000]>>)
           => /\ SentStocks = <<[offer_id |-> "A", stock |-> 100],
                                [offer_id |-> "B", stock |-> 0],
                                [offer_id |-> "C", stock |-> 0]>>
              /\ [i \in DOMAIN SentPrices |->
                    <<SentPrices[i].offer_id, SentPrices[i].price>>]
                 = << <<"A", <<"1", "0", "0", "0">> >>, <<"B", <<"2", "0", "0", "0">> >> >>

C4_DivideFailsForNonPositiveSize ==
    (d_pc # "call" /\ d_n <= 0) => d_pc = "raised"
\* C4 as amended: divide fails for the size 0, whatever the list; for a
\* negative size it returns, with no chunk at all.
C4_DivideFailsForZeroOnly ==
    d_pc \in {"returned", "raised"} =>
        /\ d_n = 0 => d_pc = "raised"
        /\ d_n < 0 => (d_pc = "returned" /\ d_out = <<>>)
C4_Witness == d_pc = "returned" /\ d_n < 0 /\ d_lst # <<>>

\* C5: for a size n >= 1 divide returns chunks that concatenate to the list,
\* each of 1 to n elements and all but the last of exactly n; the empty list
\* gives no chunk.
C5_DivideChunks ==
    (d_pc \in {"returned", "raised"} /\ d_n >= 1) =>
        /\ d_pc = "returned"
        /\ Flatten(d_out) = d_lst
        /\ \A k \in DOMAIN d_out :
              /\ Len(d_out[k]) >= 1
              /\ Len(d_out[k]) <= d_n
              /\ k < Len(d_out) => Len(d_out[k]) = d_n
        /\ d_lst = <<>> => d_out = <<>>
C5_Witness ==
    /\ d_pc = "returned" /\ d_n = 2 /\ Len(d_lst) = 3
    /\ Len(d_out) = 2 /\ Len(d_out[2]) = 1

\* C6 as claimed: no offer ID is dispatched twice within the stock stream, nor
\* within the price stream.
C6_ChunksDisjointInOfferIds == NoDup(SentStockIds) /\ NoDup(SentPriceIds)
\* C6 as amended: no offer ID is dispatched twice within the stock stream; in
\* the price stream an offer ID is dispatched at most once per record of the
\* feed that carries it.
C6_StockChunksDisjointPricesPerRecord ==
    /\ NoDup(SentStockIds)
    /\ \A id \in Range(SentPriceIds) : Count(SentPriceIds, id) <= Count(FeedCodes, id)
C6_Witness ==
    /\ pc = "done"
    /\ Len(price_calls) = 2
    /\ SentPriceIds = <<"A", "A">>

\* C7: create_prices gives a price update only for an offer ID that is the
\* code of a record and a member of the list it was given (which it leaves as
\* it was).
C7_PriceOnlyForCodeInFeedAndList ==
    "prices" \in made =>
        \A id \in Range(PriceIds) : InList(id, offer_ids) /\ id \in Range(FeedCodes)
C7_Witness ==
    /\ "prices" \in made
    /\ prices # <<>>
    /\ \E id \in Range(offer_ids) : id \notin Range(FeedCodes)
    /\ \E c \in Range(FeedCodes) : ~InList(c, offer_ids)

\* C8 as claimed: a record whose code is in the fetched offer IDs and whose
\* quantity is no bucket and no number makes create_stocks raise, and the run
\* ends with no stock and no price chunk dispatched.
C8_UnparsableQuantityOfListedCodeAborts ==
    (/\ CreateStocksRan
     /\ \E i \in DOMAIN watch_remnants :
           InCatalog(watch_remnants[i].code) /\ NotANumber(watch_remnants[i].quantity))
    => AbortedInCreateStocks
\* C8 as amended: the same for a record that is the first of the feed with
\* its code (a later record with the same code is not looked at).
C8_UnparsableQuantityOfFirstListedRecordAborts ==
    (/\ CreateStocksRan
     /\ \E i \in DOMAIN watch_remnants :
           /\ InCatalog(watch_remnants[i].code)
           /\ FirstWithCode(i)
           /\ NotANumber(watch_remnants[i].quantity))
    => AbortedInCreateStocks
C8_Witness ==
    /\ flow = "main"
    /\ pc = "done"
    /\ error = "ValueError"
    /\ Len(watch_remnants) = 2
    /\ InCatalog(watch_remnants[1].code)
    /\ watch_remnants[1].quantity = Q_7
    /\ Len(offer_ids) < Len(catalog)

\* C9: the stock of a matched record (the first record with a code of the
\* list) is 100 for ">10", 0 for "1" and the number written otherwise ("7"
\* gives 7); an offer ID no record carries gets the stock 0.
ExpectedStock(q) ==
    CASE q = Q_gt10 -> 100
      [] q = Q_1 -> 0
      [] q = Q_7 -> 7
      [] q = Q_12 -> 12
      [] OTHER -> -1
C9_StockBuckets ==
    "stocks" \in made =>
        /\ \A i \in DOMAIN watch_remnants :
              (InCatalog(watch_remnants[i].code) /\ FirstWithCode(i)) =>
                  \E k \in DOMAIN stocks :
                      stocks[k] = [offer_id |-> watch_remnants[i].code,
                                   stock |-> ExpectedStock(watch_remnants[i].quantity)]
        /\ \A id \in Range(catalog) \ Range(FeedCodes) :
              \E k \in DOMAIN stocks : stocks[k] = [offer_id |-> id, stock |-> 0]
C9_Witness ==
    /\ "stocks" \in made
    /\ Len(catalog) = 3
    /\ \E i, j \in DOMAIN watch_remnants :
          /\ watch_remnants[i].quantity = Q_7
          /\ watch_remnants[j].quantity = Q_1
          /\ watch_remnants[i].code # watch_remnants[j].code
          /\ InCatalog(watch_remnants[i].code)
          /\ InCatalog(watch_remnants[j].code)

\* C10: get_offer_ids leaves its loop only with as many items as the latest
\* page reports in total; with the endpoint serving every catalog item once,
\* on non-empty pages and with a constant total, it does leave it, returning
\* the offer IDs of the catalog in the order served; nothing is computed or
\* dispatched before that, and the first reconciliation of the run starts
\* with the complete list.
C10_GetOfferIdsCompleteAndTerminates ==
    /\ [][(pc = "get_offer_ids" /\ pc' # "get_offer_ids") =>
             (total' = Len(product_list') /\ offer_ids' = catalog)]_vars
    /\ [](pc = "get_offer_ids" =>
             (made = {} /\ stock_calls = <<>> /\ price_calls = <<>>))
    /\ []((pc = "create_stocks" \/ (pc = "create_prices" /\ flow = "upload_prices"))
             => offer_ids = catalog)
    /\ <>(pc # "get_offer_ids")
C10_Witness ==
    /\ pc = "download_stock"
    /\ Len(offer_ids) > PageLimit
    /\ offer_ids = <<"B", "C", "A">>

====
